---------------------------- MODULE Spec2Model ----------------------------
(***************************************************************************)
(* Model of the FCF-yield store of adpatel2/valueinvesting:                *)
(*   database.py  StockDatabase (derivation rules, upsert, single-field    *)
(*                updates, queries, delete, clear)                         *)
(*   stock.py     FreeCashFlowData.calculate_average, Stock provider calls *)
(*   app.py       refresh_enterprise_values, refresh_fcf_values            *)
(*   ticker_resolver.py  TickerResolver (directory load, resolve, search)   *)
(*   ingestion_all.py    StockIngestion.run                                 *)
(*                                                                         *)
(* Numbers.  FCF figures and enterprise values are integers.  An average   *)
(* is the exact fraction [n, d] in lowest terms (the binary64 quotient     *)
(* sum/len is a function of that fraction).  A yield is an integer number  *)
(* of thousandths (round(x, 3) * 1000).  Python's None / SQL NULL is the   *)
(* empty tuple, a present value v is <<v>>.                                *)
(***************************************************************************)
EXTENDS Integers, Sequences, FiniteSets, TLC

VARIABLES
    columns,            \* column names of table stock_financials, in table order
    stock_financials,   \* the table: primary key (ticker text) -> row (column -> value)
    clock,              \* datetime.now(); one tick per executed operation
    call,               \* the last operation executed: name, arguments, outcome
    drv,                \* a call of a derivation function on its own: inputs, outputs
    job,                \* a run of a refresh job of app.py: provider, loop position, tally
    threads,            \* store calls in flight in concurrent threads: position, locals
    resolver,           \* a TickerResolver of ticker_resolver.py, the file it reads, its last call
    ingestion           \* a run of StockIngestion.run of ingestion_all.py: loop position, tally

vars == <<columns, stock_financials, clock, call, drv, job, threads, resolver, ingestion>>

---------------------------------------------------------------------------
(* Optional values *)

None == <<>>
Some(x) == <<x>>
Val(o) == o[1]

---------------------------------------------------------------------------
(* Bounds of the model *)

\* number of operations executed in one behaviour, on top of the stored records
\* the behaviour starts from
MaxOps == 2
\* largest limit passed to get_top_by_yield
MaxLimit == 3

Tickers == {"AAA", "BBB"}
Names == {"Acme", "Beta"}
\* values written by update_fcf / update_enterprise_value
FcfValues == {None, Some(-1), Some(2)}
EvValues == {None, Some(0), Some(16)}
\* a year outside the supported set, on either side
BadYears == {2020, 2026}

---------------------------------------------------------------------------
(* Arithmetic helpers *)

RECURSIVE GCD(_, _)
GCD(a, b) == IF b = 0 THEN a ELSE GCD(b, a % b)

Abs(x) == IF x < 0 THEN -x ELSE x

\* the fraction n/d (d > 0) in lowest terms
Frac(n, d) == LET g == GCD(Abs(n), d) IN [n |-> n \div g, d |-> d \div g]

RECURSIVE IsPow2(_)
IsPow2(n) == IF n = 1 THEN TRUE ELSE IF n % 2 # 0 THEN FALSE ELSE IsPow2(n \div 2)

RECURSIVE BitLength(_)
BitLength(n) == IF n = 0 THEN 0 ELSE 1 + BitLength(n \div 2)

\* sum(valid_values)
RECURSIVE sum(_)
sum(s) == IF s = <<>> THEN 0 ELSE Val(Head(s)) + sum(Tail(s))

(***************************************************************************)
(* binary64 division.  FloatDivUp(r, den, got, last) continues the long    *)
(* division of a positive quotient after `got` significant bits (the last  *)
(* one `last`) with remainder r, to the 53 bits of a double, and tells     *)
(* whether round-to-nearest-even then rounds the quotient up.              *)
(***************************************************************************)
RECURSIVE FloatDivUp(_, _, _, _)
FloatDivUp(r, den, got, last) ==
    IF got >= 53
    THEN (2 * r > den) \/ (2 * r = den /\ last = 1)
    ELSE LET bit == IF 2 * r >= den THEN 1 ELSE 0
             r2 == 2 * r - bit * den
         IN FloatDivUp(r2, den, IF got > 0 \/ bit = 1 THEN got + 1 ELSE 0, bit)

\* fl(num / den) > num / den, for num, den > 0 whose quotient is no double
FloatAbove(num, den) ==
    LET i == num \div den
    IN FloatDivUp(num % den, den, BitLength(i), i % 2)

\* num / den (num >= 0, den > 0) is exactly a double: a binary fraction
FloatExact(num, den) == IsPow2(Frac(num, den).d)

---------------------------------------------------------------------------
(* Derivation engine: database.py 103-133, stock.py 35-59 *)

\* _calculate_average_fcf as it would be with the nulls counted in the divisor
_calculate_average_fcf_all_slots(fcf_values) ==
    LET valid_values == SelectSeq(fcf_values, LAMBDA v : v # None)
    IN IF valid_values = <<>> THEN None
       ELSE IF \E i \in 1..Len(valid_values) : Val(valid_values[i]) < 0 THEN None
       ELSE Some(Frac(sum(valid_values), Len(fcf_values)))

\* StockDatabase._calculate_average_fcf(fcf_values)
_calculate_average_fcf(fcf_values) ==
    LET valid_values == SelectSeq(fcf_values, LAMBDA v : v # None)
    IN IF valid_values = <<>> THEN None
       ELSE IF \E i \in 1..Len(valid_values) : Val(valid_values[i]) < 0 THEN None
       ELSE Some(Frac(sum(valid_values), Len(valid_values)))

\* FreeCashFlowData.calculate_average(self); self is the record of five fields
calculate_average(self) ==
    LET values == <<self.fcf_2025, self.fcf_2024, self.fcf_2023,
                    self.fcf_2022, self.fcf_2021>>
        valid_values == SelectSeq(values, LAMBDA v : v # None)
    IN IF valid_values = <<>> THEN None
       ELSE IF \E i \in 1..Len(valid_values) : Val(valid_values[i]) < 0 THEN None
       ELSE Some(Frac(sum(valid_values), Len(valid_values)))

(***************************************************************************)
(* round(average_fcf / enterprise_value, 3), in thousandths, for an        *)
(* average a = [n, d] >= 0 or < 0 and ev > 0.  x = fl(fl(a.n/a.d) / ev) is *)
(* rounded to the nearest thousandth of its binary value.  The exact       *)
(* quotient q = a.n / (a.d * ev) decides, except when q lies halfway       *)
(* between two thousandths: then x = q (q a binary fraction) is rounded    *)
(* half-to-even, and otherwise x lies on one side of q, the side the       *)
(* inexact division fell to.  (With a.d and ev both no power of two the     *)
(* two divisions both round; the value sets used here hold no such tie.)   *)
(***************************************************************************)
round3pos(n, d, ev) ==
    LET den == d * ev
        k == (1000 * n) \div den
        r == 1000 * n - k * den
    IN IF 2 * r < den THEN k
       ELSE IF 2 * r > den THEN k + 1
       ELSE IF FloatExact(n, den) THEN (IF k % 2 = 0 THEN k ELSE k + 1)
       ELSE IF IsPow2(d) THEN (IF FloatAbove(n, den) THEN k + 1 ELSE k)
       ELSE (IF FloatAbove(n, d) THEN k + 1 ELSE k)

\* what a call leaves when the division raises
ZeroDivisionError == <<"raised", "ZeroDivisionError">>

round3(a, ev) ==
    IF ev = 0 THEN ZeroDivisionError
    ELSE IF a.n >= 0 THEN Some(round3pos(a.n, a.d, ev))
    ELSE Some(-round3pos(-a.n, a.d, ev))

\* _calculate_fcf_yield as it would be with a truth test of average_fcf
\* (`if not average_fcf`) in place of `is None`
_calculate_fcf_yield_falsy(average_fcf, enterprise_value) ==
    IF average_fcf = None \/ enterprise_value = None THEN None
    ELSE IF Val(average_fcf).n = 0 THEN None
    ELSE IF Val(enterprise_value) <= 0 THEN None
    ELSE round3(Val(average_fcf), Val(enterprise_value))

\* StockDatabase._calculate_fcf_yield(average_fcf, enterprise_value)
_calculate_fcf_yield(average_fcf, enterprise_value) ==
    IF average_fcf = None \/ enterprise_value = None THEN None
    ELSE IF Val(enterprise_value) <= 0 THEN None
    ELSE round3(Val(average_fcf), Val(enterprise_value))

---------------------------------------------------------------------------
(* The table and its rows: database.py 76-101, 158-177, 189-210 *)

\* Stock.TARGET_YEARS, the order of every year list in the code
TARGET_YEARS == <<2025, 2024, 2023, 2022, 2021>>
Years == {TARGET_YEARS[i] : i \in 1..Len(TARGET_YEARS)}

\* f"fcf_{year}"
Col(year) ==
    CASE year = 2025 -> "fcf_2025" [] year = 2024 -> "fcf_2024"
      [] year = 2023 -> "fcf_2023" [] year = 2022 -> "fcf_2022"
      [] year = 2021 -> "fcf_2021"

\* the columns of CREATE TABLE stock_financials, in order
FreshColumns ==
    <<"ticker", "company_name", "enterprise_value", "fcf_2025", "fcf_2024",
      "fcf_2023", "fcf_2022", "fcf_2021", "average_fcf", "fcf_yield", "last_updated">>

Range(s) == {s[i] : i \in 1..Len(s)}

\* str.upper() on the ticker strings in use
upper(t) == CASE t = "aaa" -> "AAA" [] t = "bbb" -> "BBB" [] OTHER -> t

\* datetime.now().isoformat(): the time as text
isoformat(now) == <<"T", now>>

\* ORDER BY ticker: the byte order of the ticker strings in use
TickerOrder == <<"AAA", "BBB", "CCC", "aaa", "bbb">>

\* dict.get(key)
dget(data, key) == IF key \in DOMAIN data THEN data[key] ELSE None

\* SELECT *: the row's values in table order
SelectStar(row) == [i \in 1..Len(columns) |-> row[columns[i]]]

\* StockRecord(ticker=row[0], ..., last_updated=row[10] if len(row) > 10 else row[8])
StockRecord(row) ==
    [ticker |-> row[1], company_name |-> row[2], enterprise_value |-> row[3],
     fcf_2025 |-> row[4], fcf_2024 |-> row[5], fcf_2023 |-> row[6],
     fcf_2022 |-> row[7], fcf_2021 |-> row[8],
     average_fcf |-> IF Len(row) > 8 THEN row[9] ELSE None,
     fcf_yield |-> IF Len(row) > 9 THEN row[10] ELSE None,
     last_updated |-> IF Len(row) > 10 THEN row[11] ELSE row[9]]

\* StockDatabase.get(ticker): WHERE ticker = ticker.upper()
get(ticker) ==
    IF upper(ticker) \in DOMAIN stock_financials
    THEN Some(StockRecord(SelectStar(stock_financials[upper(ticker)])))
    ELSE None

\* StockDatabase.get_all(): ORDER BY ticker
get_all ==
    LET keys == SelectSeq(TickerOrder, LAMBDA k : k \in DOMAIN stock_financials)
    IN [i \in 1..Len(keys) |-> StockRecord(SelectStar(stock_financials[keys[i]]))]

\* StockDatabase.count()
count == Cardinality(DOMAIN stock_financials)

---------------------------------------------------------------------------
(* Store operations: database.py 76-101, 135-177, 241-366.  Each method is  *)
(* the outcome of calling it in the current state at time `now`: what it    *)
(* raises, what it returns, and the table it leaves.                        *)

Outcome(raised, ret, table) == [raised |-> raised, ret |-> ret, table |-> table]

EmptyTable == [k \in {} |-> None]

\* the table's columns after StockDatabase.create_tables(): CREATE TABLE IF NOT
\* EXISTS, then ADD COLUMN for each of average_fcf, fcf_yield the table lacks
create_tables_columns ==
    LET c0 == IF columns = <<>> THEN FreshColumns ELSE columns
        c1 == IF "average_fcf" \in Range(c0) THEN c0 ELSE Append(c0, "average_fcf")
    IN IF "fcf_yield" \in Range(c1) THEN c1 ELSE Append(c1, "fcf_yield")

\* the rows after StockDatabase.create_tables(): an added column is NULL in
\* every row the table holds
create_tables_rows ==
    [k \in DOMAIN stock_financials |->
        [c \in Range(create_tables_columns) |->
            IF c \in DOMAIN stock_financials[k] THEN stock_financials[k][c] ELSE None]]

\* the row of INSERT OR REPLACE INTO stock_financials (...) VALUES (...) in
\* upsert(data, company_name)
UpsertRow(data, company_name, now) ==
    LET fcf_values == <<dget(data, "fcf_2025"), dget(data, "fcf_2024"),
                        dget(data, "fcf_2023"), dget(data, "fcf_2022"),
                        dget(data, "fcf_2021")>>
        average_fcf == _calculate_average_fcf(fcf_values)
        enterprise_value == dget(data, "enterprise_value")
        fcf_yield == _calculate_fcf_yield(average_fcf, enterprise_value)
    IN [c \in Range(columns) |->
          CASE c = "ticker" -> data["ticker"]
            [] c = "company_name" -> company_name
            [] c = "enterprise_value" -> enterprise_value
            [] c = "fcf_2025" -> dget(data, "fcf_2025")
            [] c = "fcf_2024" -> dget(data, "fcf_2024")
            [] c = "fcf_2023" -> dget(data, "fcf_2023")
            [] c = "fcf_2022" -> dget(data, "fcf_2022")
            [] c = "fcf_2021" -> dget(data, "fcf_2021")
            [] c = "average_fcf" -> average_fcf
            [] c = "fcf_yield" -> fcf_yield
            [] c = "last_updated" -> isoformat(now)
            [] OTHER -> None]

\* INSERT OR REPLACE: the row takes the place of the row of the same primary key
SqlInsertOrReplace(table, row) ==
    [k \in DOMAIN table \cup {row["ticker"]} |->
        IF k = row["ticker"] THEN row ELSE table[k]]

\* UPDATE stock_financials SET ... WHERE ticker = key
SqlUpdate(key, assignments) ==
    [k \in DOMAIN stock_financials |->
        IF k = key THEN assignments @@ stock_financials[k] ELSE stock_financials[k]]

\* upsert as it would be if it stored the average_fcf the caller supplies
upsert_trusts_average(data, company_name, now) ==
    Outcome("", None,
            SqlInsertOrReplace(stock_financials,
                IF "average_fcf" \in DOMAIN data
                THEN ("average_fcf" :> data["average_fcf"]) @@ UpsertRow(data, company_name, now)
                ELSE UpsertRow(data, company_name, now)))

\* StockDatabase.upsert(data, company_name)
upsert(data, company_name, now) ==
    Outcome("", None, SqlInsertOrReplace(stock_financials, UpsertRow(data, company_name, now)))

\* update_fcf as it would be if the average were taken before the new value is
\* merged into the year set
update_fcf_unmerged(ticker, year, value, now) ==
    IF year \notin Years
    THEN Outcome("ValueError", None, stock_financials)
    ELSE LET record == get(ticker) IN
         IF record = None
         THEN Outcome("", Some(FALSE), stock_financials)
         ELSE LET r == Val(record)
                  average_fcf == _calculate_average_fcf(
                      <<r.fcf_2025, r.fcf_2024, r.fcf_2023, r.fcf_2022, r.fcf_2021>>)
                  fcf_yield == _calculate_fcf_yield(average_fcf, r.enterprise_value)
              IN Outcome("", Some(TRUE),
                         SqlUpdate(upper(ticker),
                                   (Col(year) :> value) @@ ("average_fcf" :> average_fcf)
                                   @@ ("fcf_yield" :> fcf_yield)
                                   @@ ("last_updated" :> isoformat(now))))

\* update_fcf as it would be if the record were looked up before the year is checked
update_fcf_lookup_first(ticker, year, value, now) ==
    LET record == get(ticker) IN
    IF record = None
    THEN Outcome("", Some(FALSE), stock_financials)
    ELSE IF year \notin Years
    THEN Outcome("ValueError", None, stock_financials)
    ELSE LET r == Val(record)
             fcf_values == <<IF year = 2025 THEN value ELSE r.fcf_2025,
                             IF year = 2024 THEN value ELSE r.fcf_2024,
                             IF year = 2023 THEN value ELSE r.fcf_2023,
                             IF year = 2022 THEN value ELSE r.fcf_2022,
                             IF year = 2021 THEN value ELSE r.fcf_2021>>
             average_fcf == _calculate_average_fcf(fcf_values)
             fcf_yield == _calculate_fcf_yield(average_fcf, r.enterprise_value)
         IN Outcome("", Some(TRUE),
                    SqlUpdate(upper(ticker),
                              (Col(year) :> value) @@ ("average_fcf" :> average_fcf)
                              @@ ("fcf_yield" :> fcf_yield)
                              @@ ("last_updated" :> isoformat(now))))

\* update_fcf as it would be if the yield were taken from the average the record
\* had before the call
update_fcf_yield_of_old_average(ticker, year, value, now) ==
    IF year \notin Years
    THEN Outcome("ValueError", None, stock_financials)
    ELSE LET record == get(ticker) IN
         IF record = None
         THEN Outcome("", Some(FALSE), stock_financials)
         ELSE LET r == Val(record)
                  fcf_values == <<IF year = 2025 THEN value ELSE r.fcf_2025,
                                  IF year = 2024 THEN value ELSE r.fcf_2024,
                                  IF year = 2023 THEN value ELSE r.fcf_2023,
                                  IF year = 2022 THEN value ELSE r.fcf_2022,
                                  IF year = 2021 THEN value ELSE r.fcf_2021>>
                  average_fcf == _calculate_average_fcf(fcf_values)
                  fcf_yield == _calculate_fcf_yield(r.average_fcf, r.enterprise_value)
              IN Outcome("", Some(TRUE),
                         SqlUpdate(upper(ticker),
                                   (Col(year) :> value) @@ ("average_fcf" :> average_fcf)
                                   @@ ("fcf_yield" :> fcf_yield)
                                   @@ ("last_updated" :> isoformat(now))))

update_fcf(ticker, year, value, now) ==
    IF year \notin Years
    THEN Outcome("ValueError", None, stock_financials)
    ELSE LET record == get(ticker) IN
         IF record = None
         THEN Outcome("", Some(FALSE), stock_financials)
         ELSE LET r == Val(record)
                  fcf_values == <<IF year = 2025 THEN value ELSE r.fcf_2025,
                                  IF year = 2024 THEN value ELSE r.fcf_2024,
                                  IF year = 2023 THEN value ELSE r.fcf_2023,
                                  IF year = 2022 THEN value ELSE r.fcf_2022,
                                  IF year = 2021 THEN value ELSE r.fcf_2021>>
                  average_fcf == _calculate_average_fcf(fcf_values)
                  fcf_yield == _calculate_fcf_yield(average_fcf, r.enterprise_value)
              IN Outcome("", Some(TRUE),
                         SqlUpdate(upper(ticker),
                                   (Col(year) :> value) @@ ("average_fcf" :> average_fcf)
                                   @@ ("fcf_yield" :> fcf_yield)
                                   @@ ("last_updated" :> isoformat(now))))

\* update_enterprise_value as it would be without the recomputation of fcf_yield
update_enterprise_value_stale_yield(ticker, value, now) ==
    IF get(ticker) = None
    THEN Outcome("", Some(FALSE), stock_financials)
    ELSE Outcome("", Some(TRUE),
                 SqlUpdate(upper(ticker),
                           ("enterprise_value" :> value)
                           @@ ("last_updated" :> isoformat(now))))

\* update_enterprise_value as it would be if it wrote the row anew (INSERT OR
\* REPLACE of the columns it sets) instead of updating it
update_enterprise_value_replace(ticker, value, now) ==
    LET record == get(ticker) IN
    IF record = None
    THEN Outcome("", Some(FALSE), stock_financials)
    ELSE LET fcf_yield == _calculate_fcf_yield(Val(record).average_fcf, value)
         IN Outcome("", Some(TRUE),
                    SqlInsertOrReplace(stock_financials,
                        ("ticker" :> upper(ticker)) @@ ("enterprise_value" :> value)
                        @@ ("fcf_yield" :> fcf_yield) @@ ("last_updated" :> isoformat(now))
                        @@ [c \in Range(columns) |-> None]))

\* update_enterprise_value as it would be without the lookup of the record
update_enterprise_value_no_lookup(ticker, value, now) ==
    IF upper(ticker) \in DOMAIN stock_financials
    THEN LET fcf_yield == _calculate_fcf_yield(Val(get(ticker)).average_fcf, value)
         IN Outcome("", Some(TRUE),
                    SqlUpdate(upper(ticker),
                              ("enterprise_value" :> value) @@ ("fcf_yield" :> fcf_yield)
                              @@ ("last_updated" :> isoformat(now))))
    ELSE Outcome("", Some(TRUE), stock_financials)

\* StockDatabase.update_enterprise_value(ticker, value)
update_enterprise_value(ticker, value, now) ==
    LET record == get(ticker) IN
    IF record = None
    THEN Outcome("", Some(FALSE), stock_financials)
    ELSE LET fcf_yield == _calculate_fcf_yield(Val(record).average_fcf, value)
         IN Outcome("", Some(TRUE),
                    SqlUpdate(upper(ticker),
                              ("enterprise_value" :> value) @@ ("fcf_yield" :> fcf_yield)
                              @@ ("last_updated" :> isoformat(now))))

\* delete as it would be if it reported success without looking at rowcount
delete_reports_true(ticker) ==
    Outcome("", Some(TRUE),
            [k \in DOMAIN stock_financials \ {upper(ticker)} |-> stock_financials[k]])

\* StockDatabase.delete(ticker): DELETE ... WHERE ticker = ticker.upper(); rowcount > 0
delete(ticker) ==
    Outcome("", Some(upper(ticker) \in DOMAIN stock_financials),
            [k \in DOMAIN stock_financials \ {upper(ticker)} |-> stock_financials[k]])

\* StockDatabase.clear(): DELETE FROM stock_financials
clear == Outcome("", None, EmptyTable)

\* the sequences that list every element of set S once
Orderings(S) ==
    {p \in [1..Cardinality(S) -> S] : \A i, j \in 1..Cardinality(S) : p[i] = p[j] => i = j}

\* WHERE fcf_yield IS NOT NULL ORDER BY fcf_yield DESC: the row keys in every
\* order SQL may return them (rows of equal yield come in any order)
OrderByYieldDesc ==
    LET keys == {k \in DOMAIN stock_financials : stock_financials[k]["fcf_yield"] # None}
    IN {p \in Orderings(keys) :
           \A i \in 1..Len(p) - 1 :
               Val(stock_financials[p[i]]["fcf_yield"])
                   >= Val(stock_financials[p[i + 1]]["fcf_yield"])}

\* LIMIT ?: the first `limit` rows; a negative limit is no limit
SqlLimit(p, limit) ==
    IF limit < 0 \/ limit >= Len(p) THEN p ELSE SubSeq(p, 1, limit)

\* get_top_by_yield as it would be without WHERE fcf_yield IS NOT NULL (in a
\* descending order the rows of NULL yield come last)
get_top_by_yield_no_where(limit) ==
    LET nulls == {k \in DOMAIN stock_financials : stock_financials[k]["fcf_yield"] = None}
    IN {[i \in 1..Len(SqlLimit(p \o q, limit)) |->
            StockRecord(SelectStar(stock_financials[SqlLimit(p \o q, limit)[i]]))] :
        p \in OrderByYieldDesc, q \in Orderings(nulls)}

\* StockDatabase.get_top_by_yield(limit): every list the query may return
get_top_by_yield(limit) ==
    {[i \in 1..Len(SqlLimit(p, limit)) |->
         StockRecord(SelectStar(stock_financials[SqlLimit(p, limit)[i]]))] :
     p \in OrderByYieldDesc}

---------------------------------------------------------------------------
(* Callers' inputs *)

\* FreeCashFlowData(fcf_2025, ..., fcf_2021)
FreeCashFlowData(a, b, c, d, e) ==
    [fcf_2025 |-> a, fcf_2024 |-> b, fcf_2023 |-> c, fcf_2022 |-> d, fcf_2021 |-> e]

\* Stock.get_all_data(): the dict handed to upsert, from the provider's answers
get_all_data(ticker, enterprise_value, fcf) ==
    [ticker |-> ticker,
     enterprise_value |-> enterprise_value,
     fcf_2025 |-> fcf.fcf_2025, fcf_2024 |-> fcf.fcf_2024, fcf_2023 |-> fcf.fcf_2023,
     fcf_2022 |-> fcf.fcf_2022, fcf_2021 |-> fcf.fcf_2021,
     average_fcf |-> calculate_average(fcf)]

\* the data dicts upsert is called with for ticker t: provider dicts, a dict that
\* carries a stale average_fcf, and a dict that omits most keys
UpsertData(t) ==
    { get_all_data(t, Some(8), FreeCashFlowData(Some(2), Some(1), None, None, None)),
      get_all_data(t, Some(8), FreeCashFlowData(Some(1), Some(-1), Some(2), None, None)),
      get_all_data(t, Some(0), FreeCashFlowData(Some(1), Some(1), Some(1), Some(1), Some(2))),
      get_all_data(t, None, FreeCashFlowData(None, None, None, None, None)),
      [get_all_data(t, Some(8), FreeCashFlowData(Some(2), Some(2), Some(2), Some(2), Some(2)))
          EXCEPT !.average_fcf = Some(Frac(7, 1))],
      [ticker |-> t, fcf_2023 |-> Some(2)] }

\* the table after upsert(seq[1]), ..., upsert(seq[n]) on an empty table at time
\* 0; each seq[i] is <<data, company_name>>
RECURSIVE Upserted(_)
Upserted(seq) ==
    IF seq = <<>> THEN EmptyTable
    ELSE SqlInsertOrReplace(Upserted(SubSeq(seq, 1, Len(seq) - 1)),
                            UpsertRow(seq[Len(seq)][1], seq[Len(seq)][2], 0))

\* the stored records a behaviour starts from: none, or what earlier upserts left
StoredAtStart ==
    LET a == <<get_all_data("AAA", Some(8),
                   FreeCashFlowData(Some(2), Some(1), None, None, None)), "Acme">>
        b == <<get_all_data("BBB", Some(8),
                   FreeCashFlowData(Some(2), Some(2), Some(2), Some(2), Some(2))), "Beta">>
        b2 == <<get_all_data("BBB", Some(8),
                   FreeCashFlowData(Some(1), Some(-1), None, None, None)), "Beta">>
        c == <<get_all_data("CCC", Some(16),
                   FreeCashFlowData(Some(2), Some(2), Some(2), None, Some(0))), "Core">>
    IN {Upserted(<<>>), Upserted(<<a>>), Upserted(<<a, b>>), Upserted(<<c, b2, a>>)}

---------------------------------------------------------------------------
(* The store under sequential use: one action per call of a method *)

\* what an operation leaves in `call`
Called(op, args, raised, ret) == [op |-> op, args |-> args, raised |-> raised, ret |-> ret]
NoCall == Called("", <<>>, "", None)
Idle == [pc |-> "idle"]
NoThreads == <<>>
NoResolver == <<>>
NoIngestion == <<>>

\* every call takes one tick of the clock, and MaxOps calls are made
Tick == clock < MaxOps /\ clock' = clock + 1

\* a call of a method that writes: its outcome becomes the state
Write(op, args, o) ==
    /\ Tick
    /\ stock_financials' = o.table
    /\ call' = Called(op, args, o.raised, o.ret)
    /\ UNCHANGED <<columns, drv, job, threads, resolver, ingestion>>

\* a call of a query
Read(op, args, ret) ==
    /\ Tick
    /\ call' = Called(op, args, "", ret)
    /\ UNCHANGED <<columns, stock_financials, drv, job, threads, resolver, ingestion>>

CallCreateTables ==
    /\ Tick
    /\ columns' = create_tables_columns
    /\ stock_financials' = create_tables_rows
    /\ call' = Called("create_tables", <<>>, "", None)
    /\ UNCHANGED <<drv, job, threads, resolver, ingestion>>

CallUpsert(data, company_name) ==
    Write("upsert", <<data, company_name>>, upsert(data, company_name, clock + 1))

CallUpdateFcf(ticker, year, value) ==
    Write("update_fcf", <<ticker, year, value>>, update_fcf(ticker, year, value, clock + 1))

CallUpdateEnterpriseValue(ticker, value) ==
    Write("update_enterprise_value", <<ticker, value>>,
          update_enterprise_value(ticker, value, clock + 1))

CallDelete(ticker) == Write("delete", <<ticker>>, delete(ticker))

CallClear == Write("clear", <<>>, clear)

CallGet(ticker) == Read("get", <<ticker>>, get(ticker))

CallGetAll == Read("get_all", <<>>, get_all)

CallCount == Read("count", <<>>, count)

CallGetTopByYield(limit) ==
    \E rows \in get_top_by_yield(limit) : Read("get_top_by_yield", <<limit>>, rows)

Init ==
    /\ threads = NoThreads
    /\ resolver = NoResolver
    /\ ingestion = NoIngestion
    /\ columns = FreshColumns
    /\ stock_financials \in StoredAtStart
    /\ clock = 0
    /\ call = NoCall
    /\ drv = Idle
    /\ job = Idle

Next ==
    \/ CallCreateTables
    \/ \E t \in Tickers, n \in Names : \E data \in UpsertData(t) : CallUpsert(data, n)
    \/ \E t \in Tickers, y \in Years \cup BadYears, v \in FcfValues : CallUpdateFcf(t, y, v)
    \/ \E t \in Tickers, v \in EvValues : CallUpdateEnterpriseValue(t, v)
    \/ \E t \in Tickers : CallDelete(t)
    \/ CallClear
    \/ \E t \in Tickers : CallGet(t)
    \/ CallGetAll
    \/ CallCount
    \/ \E limit \in 0..MaxLimit : CallGetTopByYield(limit)

Spec == Init /\ [][Next]_vars

---------------------------------------------------------------------------
(* The derivation functions on their own: every input, one call *)

\* the values of an FCF slot, of an average and of an enterprise value
FcfInputs == {None, Some(-1), Some(0), Some(1), Some(2), Some(5)}
AverageInputs == {None} \cup {Some(Frac(n, d)) : n \in -3..12, d \in 1..5}
EvInputs == {None} \cup {Some(e) : e \in {-8, -1, 0, 1, 2, 3, 8, 16}}

InitDerive ==
    /\ threads = NoThreads
    /\ resolver = NoResolver
    /\ ingestion = NoIngestion
    /\ columns = FreshColumns
    /\ stock_financials = EmptyTable
    /\ clock = 0
    /\ call = NoCall
    /\ job = Idle
    /\ drv \in {[fn |-> "average", fcf_values |-> v, db |-> None, stock |-> None] :
                   v \in [1..Len(TARGET_YEARS) -> FcfInputs]}
          \cup {[fn |-> "yield", average_fcf |-> a, enterprise_value |-> e, out |-> None] :
                   a \in AverageInputs, e \in EvInputs}

\* db._calculate_average_fcf(fcf_values)
CallCalculateAverageFcf ==
    /\ drv.fn = "average" /\ drv.db = None
    /\ drv' = [drv EXCEPT !.db = Some(_calculate_average_fcf(drv.fcf_values))]
    /\ UNCHANGED <<columns, stock_financials, clock, call, job, threads, resolver, ingestion>>

\* FreeCashFlowData(*fcf_values).calculate_average()
CallCalculateAverage ==
    /\ drv.fn = "average" /\ drv.stock = None
    /\ LET v == drv.fcf_values
       IN drv' = [drv EXCEPT !.stock =
                     Some(calculate_average(FreeCashFlowData(v[1], v[2], v[3], v[4], v[5])))]
    /\ UNCHANGED <<columns, stock_financials, clock, call, job, threads, resolver, ingestion>>

\* db._calculate_fcf_yield(average_fcf, enterprise_value)
CallCalculateFcfYield ==
    /\ drv.fn = "yield" /\ drv.out = None
    /\ drv' = [drv EXCEPT !.out =
                  Some(_calculate_fcf_yield(drv.average_fcf, drv.enterprise_value))]
    /\ UNCHANGED <<columns, stock_financials, clock, call, job, threads, resolver, ingestion>>

NextDerive == CallCalculateAverageFcf \/ CallCalculateAverage \/ CallCalculateFcfYield

SpecDerive == InitDerive /\ [][NextDerive]_vars

\* the slots of v that hold a value, and the sum of those values
Present(v) == {i \in DOMAIN v : v[i] # None}
RECURSIVE SumOver(_, _)
SumOver(v, I) ==
    IF I = {} THEN 0
    ELSE LET i == CHOOSE j \in I : TRUE IN Val(v[i]) + SumOver(v, I \ {i})

\* result is what the average rule asks for on the five slots v
IsAverageOf(result, v) ==
    IF Present(v) = {} THEN result = None
    ELSE IF \E i \in Present(v) : Val(v[i]) < 0 THEN result = None
    ELSE /\ result # None
         /\ Val(result).d > 0
         /\ Val(result).n * Cardinality(Present(v)) = Val(result).d * SumOver(v, Present(v))

\* C2: for every five-slot vector of optional FCF values the average is null when
\* no value is present, null when a present value is negative, and otherwise the
\* arithmetic mean of the present values only; the store's _calculate_average_fcf
\* and the provider-side calculate_average return the same result.
C2_AverageRule ==
    drv.fn = "average" =>
        /\ drv.db # None => IsAverageOf(Val(drv.db), drv.fcf_values)
        /\ drv.stock # None => IsAverageOf(Val(drv.stock), drv.fcf_values)
        /\ (drv.db # None /\ drv.stock # None) => drv.db = drv.stock

\* C2 witness: both functions have been called on a vector with a null, no
\* negative value, and a mean that is no whole number
C2_Witness ==
    /\ drv.fn = "average" /\ drv.db # None /\ drv.stock # None
    /\ \E i \in 1..5 : drv.fcf_values[i] = None
    /\ Val(drv.db) # None
    /\ Val(Val(drv.db)).d > 1

\* C3: for every pair (average_fcf, enterprise_value) the yield is null when the
\* average is null, the enterprise value is null or the enterprise value is <= 0;
\* in every other case the call does not fail and returns average / enterprise
\* value rounded to 3 decimal places (a thousandth nearest to the quotient), so an
\* average of 0 gives 0, not null.
C3_YieldRule ==
    (drv.fn = "yield" /\ drv.out # None) =>
        LET a == drv.average_fcf
            e == drv.enterprise_value
            y == Val(drv.out)
        IN IF a = None \/ e = None THEN y = None
           ELSE IF Val(e) <= 0 THEN y = None
           ELSE /\ Len(y) = 1
                /\ 2 * Abs(1000 * Val(a).n - Val(y) * Val(a).d * Val(e)) <= Val(a).d * Val(e)
                /\ Val(a).n = 0 => Val(y) = 0

\* C3 witness: the yield of a zero average over a positive enterprise value has
\* been computed
C3_Witness ==
    /\ drv.fn = "yield" /\ drv.out # None
    /\ drv.average_fcf = Some(Frac(0, 1))
    /\ drv.enterprise_value = Some(8)
    /\ Val(drv.out) = Some(0)

---------------------------------------------------------------------------
(* Refresh jobs: app.py 16-63, with the provider calls of stock.py 115-180.  *)
(* A provider answer is what yfinance gives for one ticker: each of info,    *)
(* cash_flow and quarterly_cash_flow either raises or has content.  The      *)
(* environment fixes the provider's answers and the store's fault (the       *)
(* update call of a ticker that sqlite3 refuses, as with a locked database). *)

MaxRuns == 2

Answer(info_raises, enterpriseValue, cf_raises, annual, q_raises, quarters) ==
    [info |-> [raises |-> info_raises, enterpriseValue |-> enterpriseValue],
     cash_flow |-> [raises |-> cf_raises, annual |-> annual],
     quarterly_cash_flow |-> [raises |-> q_raises, quarters |-> quarters]]

NoFcf == FreeCashFlowData(None, None, None, None, None)

\* yfinance raises on every request for the ticker
AnswerDown == Answer(TRUE, None, TRUE, NoFcf, TRUE, <<>>)

\* a full answer: an enterprise value and annual statements
AnswerFull ==
    Answer(FALSE, Some(16), FALSE, FreeCashFlowData(Some(2), Some(2), None, Some(1), None),
           FALSE, <<Some(1), Some(1), Some(1), Some(1)>>)

\* no enterpriseValue key in info, no 2025 column yet, four quarters
AnswerTtm ==
    Answer(FALSE, None, FALSE, FreeCashFlowData(None, Some(1), Some(5), None, None),
           FALSE, <<Some(1), Some(0), Some(2), Some(1), Some(5)>>)

\* annual statements without 2025, and the quarterly request raises
AnswerNoQuarters ==
    Answer(FALSE, Some(8), FALSE, FreeCashFlowData(None, Some(2), Some(1), Some(0), None),
           TRUE, <<>>)

Answers == {AnswerDown, AnswerFull, AnswerTtm, AnswerNoQuarters}

Providers ==
    {("AAA" :> a) @@ ("BBB" :> b) @@ ("CCC" :> c) :
        a \in Answers, b \in Answers, c \in {AnswerDown, AnswerFull}}

NoFault == [ticker |-> "", call |-> 0]
Faults == {NoFault, [ticker |-> "AAA", call |-> 1], [ticker |-> "BBB", call |-> 2]}

\* Stock.get_enterprise_value(): every exception of the provider is swallowed
get_enterprise_value(answer) ==
    IF answer.info.raises THEN None ELSE answer.info.enterpriseValue

\* _calculate_ttm_fcf as it would be if it summed the valid quarters it finds
\* among the first four, however few
_calculate_ttm_fcf_valid_only(answer) ==
    LET q == answer.quarterly_cash_flow IN
    IF q.raises THEN None
    ELSE IF q.quarters = <<>> THEN None
    ELSE LET first4 == SubSeq(q.quarters, 1, IF Len(q.quarters) < 4 THEN Len(q.quarters) ELSE 4)
             valid_quarters == SelectSeq(first4, LAMBDA val : val # None)
         IN IF Len(valid_quarters) > 0 THEN Some(sum(valid_quarters)) ELSE None

\* Stock._calculate_ttm_fcf(): the sum of the first four quarters when all four
\* are valid, else None; every exception is swallowed
_calculate_ttm_fcf(answer) ==
    LET q == answer.quarterly_cash_flow IN
    IF q.raises THEN None
    ELSE IF q.quarters = <<>> THEN None
    ELSE LET first4 == SubSeq(q.quarters, 1, IF Len(q.quarters) < 4 THEN Len(q.quarters) ELSE 4)
             valid_quarters == SelectSeq(first4, LAMBDA val : val # None)
         IN IF Len(valid_quarters) = 4 THEN Some(sum(valid_quarters)) ELSE None

\* Stock.get_free_cash_flow(): the annual values, 2025 from the trailing twelve
\* months when the annual one is missing; an exception leaves the result as it is
get_free_cash_flow(answer) ==
    IF answer.cash_flow.raises THEN NoFcf
    ELSE LET result == answer.cash_flow.annual
             ttm_fcf == _calculate_ttm_fcf(answer)
         IN IF result.fcf_2025 = None /\ ttm_fcf # None
            THEN [result EXCEPT !.fcf_2025 = ttm_fcf]
            ELSE result

\* Stock(ticker): self.ticker = ticker.upper().strip(), and what yfinance answers
Stock(ticker) == job.provider[upper(ticker)]

\* sqlite3 raises on this update call of the ticker
Refused(ticker, nth) == job.fault.ticker = upper(ticker) /\ job.fault.call = nth

InitRefresh ==
    /\ threads = NoThreads
    /\ resolver = NoResolver
    /\ ingestion = NoIngestion
    /\ columns = FreshColumns
    /\ stock_financials \in StoredAtStart
    /\ clock = 0
    /\ call = NoCall
    /\ drv = Idle
    /\ \E provider \in Providers, fault \in Faults :
          job = [pc |-> "idle", kind |-> "", provider |-> provider, fault |-> fault,
                 runs |-> 0, records |-> <<>>, i |-> 1, success |-> 0, errors |-> 0,
                 fcf_data |-> NoFcf, year |-> 1, calls |-> 0, left |-> <<>>,
                 start |-> stock_financials]

\* the scheduler fires a job: records = db.get_all(), success = 0, errors = 0;
\* job.start keeps the table the run found
StartJob(kind) ==
    /\ job.pc \in {"idle", "done"}
    /\ job.runs < MaxRuns
    /\ job' = [job EXCEPT !.pc = kind, !.kind = kind, !.runs = @ + 1,
                          !.records = [n \in 1..Len(get_all) |-> get_all[n].ticker],
                          !.i = 1, !.success = 0, !.errors = 0,
                          !.fcf_data = NoFcf, !.year = 1, !.calls = 0,
                          !.start = stock_financials]
    /\ UNCHANGED <<columns, stock_financials, clock, call, drv, threads, resolver, ingestion>>

\* refresh_enterprise_values: one turn of the loop over records
RefreshEnterpriseValue ==
    /\ job.pc = "ev" /\ job.i <= Len(job.records)
    /\ LET ticker == job.records[job.i]
           new_ev == get_enterprise_value(Stock(ticker))
       IN IF new_ev = None
          THEN /\ job' = [job EXCEPT !.i = @ + 1]
               /\ UNCHANGED <<stock_financials, call>>
          ELSE IF Refused(ticker, 1)
          THEN /\ job' = [job EXCEPT !.i = @ + 1, !.errors = @ + 1]
               /\ call' = Called("update_enterprise_value", <<ticker, new_ev>>,
                                 "sqlite3.OperationalError", None)
               /\ UNCHANGED stock_financials
          ELSE LET o == update_enterprise_value(ticker, new_ev, clock + 1)
               IN /\ stock_financials' = o.table
                  /\ call' = Called("update_enterprise_value", <<ticker, new_ev>>,
                                    o.raised, o.ret)
                  /\ job' = [job EXCEPT !.i = @ + 1, !.success = @ + 1]
    /\ clock' = clock + 1
    /\ UNCHANGED <<columns, drv, threads, resolver, ingestion>>

\* refresh_fcf_values: a turn of the outer loop starts with the provider's data
RefreshFcfFetch ==
    /\ job.pc = "fcf" /\ job.i <= Len(job.records)
    /\ job' = [job EXCEPT !.pc = "fcf_years",
                          !.fcf_data = get_free_cash_flow(Stock(job.records[job.i])),
                          !.year = 1, !.calls = 0]
    /\ clock' = clock + 1
    /\ UNCHANGED <<columns, stock_financials, call, drv, threads, resolver, ingestion>>

\* refresh_fcf_values: one turn of the inner loop over the years; after the last
\* year success += 1, and an exception ends the record's turn with errors += 1
RefreshFcfYear ==
    /\ job.pc = "fcf_years"
    /\ LET ticker == job.records[job.i]
           year == TARGET_YEARS[job.year]
           fcf_value == job.fcf_data[Col(year)]
           after == IF job.year = Len(TARGET_YEARS)
                    THEN [job EXCEPT !.pc = "fcf", !.i = @ + 1, !.success = @ + 1]
                    ELSE [job EXCEPT !.year = @ + 1]
       IN IF fcf_value = None
          THEN /\ job' = after
               /\ UNCHANGED <<stock_financials, call>>
          ELSE IF Refused(ticker, job.calls + 1)
          THEN /\ job' = [job EXCEPT !.pc = "fcf", !.i = @ + 1, !.errors = @ + 1]
               /\ call' = Called("update_fcf", <<ticker, year, fcf_value>>,
                                 "sqlite3.OperationalError", None)
               /\ UNCHANGED stock_financials
          ELSE LET o == update_fcf(ticker, year, fcf_value, clock + 1)
               IN /\ stock_financials' = o.table
                  /\ call' = Called("update_fcf", <<ticker, year, fcf_value>>, o.raised, o.ret)
                  /\ job' = [after EXCEPT !.calls = job.calls + 1]
    /\ clock' = clock + 1
    /\ UNCHANGED <<columns, drv, threads, resolver, ingestion>>

\* the loop over records is over: the job prints its tally; job.left keeps, for
\* each finished run, which job it was and the table it left
JobComplete ==
    /\ job.pc \in {"ev", "fcf"} /\ job.i > Len(job.records)
    /\ job' = [job EXCEPT !.pc = "done",
                          !.left = Append(@, [kind |-> job.kind, table |-> stock_financials])]
    /\ UNCHANGED <<columns, stock_financials, clock, call, drv, threads, resolver, ingestion>>

NextRefresh ==
    \/ \E kind \in {"ev", "fcf"} : StartJob(kind)
    \/ RefreshEnterpriseValue
    \/ RefreshFcfFetch
    \/ RefreshFcfYear
    \/ JobComplete

SpecRefresh == InitRefresh /\ [][NextRefresh]_vars

\* the tickers of the batch for which the provider raises on what the job asks
ProviderFails(kind, answer) ==
    IF kind = "ev" THEN answer.info.raises ELSE answer.cash_flow.raises

\* the provider has what the job asks for
ProviderHasData(kind, answer) ==
    IF kind = "ev" THEN ~answer.info.raises /\ answer.info.enterpriseValue # None
    ELSE ~answer.cash_flow.raises /\ get_free_cash_flow(answer) # NoFcf

FailedAt == {n \in 1..Len(job.records) : ProviderFails(job.kind, Stock(job.records[n]))}

\* C10: a refresh batch over N stored tickers in which the provider fails for k >= 1
\* of them (and answers with data for the others, the store refusing no update)
\* runs over all N tickers, updates the other N - k, and ends with the tally
\* success = N - k and errors = k.
C10_RefreshTally ==
    (/\ job.pc = "done"
     /\ job.fault = NoFault
     /\ FailedAt # {}
     /\ \A n \in 1..Len(job.records) \ FailedAt :
           ProviderHasData(job.kind, Stock(job.records[n])))
    => /\ job.i = Len(job.records) + 1
       /\ \A n \in 1..Len(job.records) \ FailedAt :
             Val(get(job.records[n])).last_updated # isoformat(0)
       /\ job.success = Len(job.records) - Cardinality(FailedAt)
       /\ job.errors = Cardinality(FailedAt)

---------------------------------------------------------------------------
(* Properties of the store *)

\* the stored records, as get and get_all return them
StoredRecords == {StockRecord(SelectStar(stock_financials[k])) : k \in DOMAIN stock_financials}

FcfYears(r) == <<r.fcf_2025, r.fcf_2024, r.fcf_2023, r.fcf_2022, r.fcf_2021>>

\* C1: after any sequence of store operations (upsert, update_fcf,
\* update_enterprise_value, delete, clear), every stored record satisfies both
\* derivation rules at once: its average_fcf is the average of its five stored FCF
\* years, and its fcf_yield is the yield of its stored average_fcf and its stored
\* enterprise_value.
C1_DerivedFieldsConsistent ==
    \A r \in StoredRecords :
        /\ r.average_fcf = _calculate_average_fcf(FcfYears(r))
        /\ r.fcf_yield = _calculate_fcf_yield(r.average_fcf, r.enterprise_value)

\* C1 witness: a second operation, update_enterprise_value, has replaced the
\* enterprise value of a record that has an average, and the record has a yield
C1_Witness ==
    /\ call.op = "update_enterprise_value"
    /\ call.ret = Some(TRUE)
    /\ clock = MaxOps
    /\ \E r \in StoredRecords :
          /\ r.ticker = upper(call.args[1])
          /\ r.enterprise_value = Some(16)
          /\ r.average_fcf # None
          /\ r.fcf_yield # None

\* the record get returns for a row
RecordOf(row) == StockRecord(SelectStar(row))

\* every row but the one of key k is the same after the step, and no row is added
\* or removed
OtherRowsUnchanged(k) ==
    /\ DOMAIN stock_financials' = DOMAIN stock_financials
    /\ \A k2 \in DOMAIN stock_financials \ {k} : stock_financials'[k2] = stock_financials[k2]

\* C4: for every existing ticker, every year in 2021..2025 and every optional value
\* v, update_fcf(ticker, year, v) followed by get(ticker) returns a record whose FCF
\* of that year is v, whose other four FCF years, enterprise_value and company_name
\* are as before the call, and whose average_fcf and fcf_yield are the derivation of
\* the merged five years and the unchanged enterprise value; the records of other
\* tickers are unchanged.
C4_UpdateFcfRoundTrip ==
    [][(call'.op = "update_fcf" /\ call'.args[2] \in Years /\ get(call'.args[1]) # None) =>
          LET t == call'.args[1]
              y == call'.args[2]
              v == call'.args[3]
          IN /\ upper(t) \in DOMAIN stock_financials'
             /\ \A b \in {Val(get(t))}, a \in {RecordOf(stock_financials'[upper(t)])} :
                   /\ a[Col(y)] = v
                   /\ \A y2 \in Years \ {y} : a[Col(y2)] = b[Col(y2)]
                   /\ a.enterprise_value = b.enterprise_value
                   /\ a.company_name = b.company_name
                   /\ a.ticker = b.ticker
                   /\ a.average_fcf = _calculate_average_fcf(FcfYears(a))
                   /\ a.fcf_yield = _calculate_fcf_yield(a.average_fcf, b.enterprise_value)
             /\ OtherRowsUnchanged(upper(t))]_vars

\* C4 witness: update_fcf has cleared one year of a record that keeps an average,
\* next to the record of another ticker
C4_Witness ==
    /\ call.op = "update_fcf" /\ call.ret = Some(TRUE)
    /\ call.args[3] = None
    /\ Cardinality(DOMAIN stock_financials) >= 2
    /\ Val(get(call.args[1])).average_fcf # None
    /\ Val(get(call.args[1])).last_updated = isoformat(clock)

\* C5: for every existing ticker and every optional value v,
\* update_enterprise_value(ticker, v) changes only enterprise_value, fcf_yield and
\* last_updated of that record: average_fcf, the five FCF years and company_name are
\* left unchanged, and no other ticker's record is touched.
C5_UpdateEvFrame ==
    [][(call'.op = "update_enterprise_value" /\ get(call'.args[1]) # None) =>
          LET t == call'.args[1]
              v == call'.args[2]
          IN /\ upper(t) \in DOMAIN stock_financials'
             /\ \A c \in Range(columns) \ {"enterprise_value", "fcf_yield", "last_updated"} :
                   stock_financials'[upper(t)][c] = stock_financials[upper(t)][c]
             /\ \A b \in {Val(get(t))}, a \in {RecordOf(stock_financials'[upper(t)])} :
                   /\ a.average_fcf = b.average_fcf
                   /\ FcfYears(a) = FcfYears(b)
                   /\ a.company_name = b.company_name
                   /\ a.enterprise_value = v
             /\ OtherRowsUnchanged(upper(t))]_vars

\* C5 witness: update_enterprise_value has written a new enterprise value to a
\* record that has FCF years and an average, next to the record of another ticker
C5_Witness ==
    /\ call.op = "update_enterprise_value" /\ call.ret = Some(TRUE)
    /\ Cardinality(DOMAIN stock_financials) >= 2
    /\ LET r == Val(get(call.args[1]))
       IN /\ r.enterprise_value = Some(16)
          /\ r.average_fcf # None
          /\ r.fcf_2025 # None
          /\ r.last_updated = isoformat(clock)

\* C6: the record left by upsert is a function of the call's arguments alone: every
\* input field is replaced (an FCF year or enterprise value the input omits becomes
\* null), the derived fields are recomputed from the supplied inputs (an average_fcf
\* in the input is ignored), no other record changes, and the same upsert applied a
\* second time leaves the same tickers and the same input and derived fields (only
\* last_updated may differ).
C6_UpsertReplaces ==
    [][call'.op = "upsert" =>
          LET data == call'.args[1]
              key == call'.args[1]["ticker"]
          IN /\ DOMAIN stock_financials' = DOMAIN stock_financials \cup {key}
             /\ \A k \in DOMAIN stock_financials \ {key} :
                   stock_financials'[k] = stock_financials[k]
             /\ \A a \in {RecordOf(stock_financials'[key])} :
                   /\ a.ticker = key
                   /\ a.company_name = call'.args[2]
                   /\ a.enterprise_value = dget(data, "enterprise_value")
                   /\ \A y \in Years : a[Col(y)] = dget(data, Col(y))
                   /\ a.average_fcf = _calculate_average_fcf(FcfYears(a))
                   /\ a.fcf_yield = _calculate_fcf_yield(a.average_fcf, a.enterprise_value)
             /\ (call.op = "upsert" /\ call.args = call'.args) =>
                   /\ DOMAIN stock_financials' = DOMAIN stock_financials
                   /\ \A c \in Range(columns) \ {"last_updated"} :
                         stock_financials'[key][c] = stock_financials[key][c]]_vars

\* C6 witness: upsert has been called with an average_fcf that is not the average
\* of the FCF years it carries, and the record holds the average of those years
C6_Witness ==
    /\ call.op = "upsert"
    /\ "average_fcf" \in DOMAIN call.args[1]
    /\ LET r == RecordOf(stock_financials[call.args[1]["ticker"]])
       IN /\ r.average_fcf # call.args[1]["average_fcf"]
          /\ r.average_fcf = Some(Frac(2, 1))
          /\ r.last_updated = isoformat(clock)

\* C7: update_fcf with a year outside 2021..2025 fails with an invalid-input error
\* (ValueError) whether or not the ticker has a record, and leaves every stored
\* record, last_updated included, unchanged; the year is not coerced to a
\* supported one.
C7_BadYearRejected ==
    [][(call'.op = "update_fcf" /\ call'.args[2] \notin Years) =>
          /\ call'.raised = "ValueError"
          /\ call'.ret = None
          /\ stock_financials' = stock_financials]_vars

\* C7 witness: update_fcf has been called with an unsupported year for a ticker
\* without a record, while other records are stored
C7_Witness ==
    /\ call.op = "update_fcf" /\ call.raised = "ValueError"
    /\ call.args[2] \notin Years
    /\ get(call.args[1]) = None
    /\ stock_financials # EmptyTable

\* C8: update_fcf (with a valid year) and update_enterprise_value on a ticker that
\* has no record return false without raising, create no record and leave the whole
\* store unchanged; they return true only when a record of that ticker exists and
\* has been updated.
C8_NotFoundReturnsFalse ==
    [][((call'.op = "update_fcf" /\ call'.args[2] \in Years)
           \/ call'.op = "update_enterprise_value") =>
          LET t == call'.args[1]
          IN /\ get(t) = None =>
                   /\ call'.raised = ""
                   /\ call'.ret = Some(FALSE)
                   /\ stock_financials' = stock_financials
             /\ call'.ret = Some(TRUE) =>
                   /\ get(t) # None
                   /\ upper(t) \in DOMAIN stock_financials'
                   /\ stock_financials'[upper(t)]["last_updated"] = isoformat(clock')
                   /\ IF call'.op = "update_fcf"
                      THEN stock_financials'[upper(t)][Col(call'.args[2])] = call'.args[3]
                      ELSE stock_financials'[upper(t)]["enterprise_value"] = call'.args[2]]_vars

\* C8 witness: update_enterprise_value has returned false for a ticker without a
\* record, while other records are stored
C8_Witness ==
    /\ call.op = "update_enterprise_value" /\ call.ret = Some(FALSE)
    /\ get(call.args[1]) = None
    /\ stock_financials # EmptyTable

Min(a, b) == IF a <= b THEN a ELSE b

\* C9: for every store state and every limit >= 0, get_top_by_yield(limit) returns
\* exactly min(limit, number of records with non-null fcf_yield) records, each a
\* stored record, none with a null fcf_yield, no record twice, in non-increasing
\* fcf_yield order, and no omitted record of non-null yield has a strictly higher
\* yield than a returned one; the query does not modify the store.
C9_TopByYield ==
    [][call'.op = "get_top_by_yield" =>
          LET rows == call'.ret
              limit == call'.args[1]
              ranked == {r \in StoredRecords : r.fcf_yield # None}
              returned == {rows[i] : i \in 1..Len(rows)}
          IN /\ stock_financials' = stock_financials
             /\ Len(rows) = Min(limit, Cardinality(ranked))
             /\ returned \subseteq ranked
             /\ Cardinality(returned) = Len(rows)
             /\ \A i \in 1..Len(rows) - 1 :
                   Val(rows[i].fcf_yield) >= Val(rows[i + 1].fcf_yield)
             /\ \A o \in ranked \ returned : \A r \in returned :
                   Val(o.fcf_yield) <= Val(r.fcf_yield)]_vars

\* C9 witness: get_top_by_yield(1) has returned the one record of highest yield,
\* leaving out a record of lower non-null yield and a record of null yield
C9_Witness ==
    /\ call.op = "get_top_by_yield" /\ call.args[1] = 1
    /\ Len(call.ret) = 1
    /\ \E r \in StoredRecords : r.fcf_yield = None
    /\ \E r \in StoredRecords :
          r.fcf_yield # None /\ Val(r.fcf_yield) < Val(call.ret[1].fcf_yield)

---------------------------------------------------------------------------
(* Stock.get_free_cash_flow on its own: stock.py 127-180.  The annual        *)
(* statement is a sequence of columns (fiscal year end, Free Cash Flow       *)
(* value; None stands for None and NaN), the quarterly one a sequence of     *)
(* values, most recent first; either request may raise.                      *)

MaxColumns == 2
MaxQuarters == 5

Column(year, value) == [year |-> year, value |-> value]

\* the loop over self.cash_flow.columns: a column of a target year with a valid
\* value sets that year's field
RECURSIVE AnnualOf(_)
AnnualOf(cols) ==
    IF cols = <<>> THEN NoFcf
    ELSE LET result == AnnualOf(SubSeq(cols, 1, Len(cols) - 1))
             col == cols[Len(cols)]
         IN IF col.year \in Range(TARGET_YEARS) /\ col.value # None
            THEN [result EXCEPT ![Col(col.year)] = col.value]
            ELSE result

RECURSIVE SeqsUpTo(_, _)
SeqsUpTo(S, n) ==
    IF n = 0 THEN {<<>>}
    ELSE SeqsUpTo(S, n - 1) \cup {Append(q, x) : q \in SeqsUpTo(S, n - 1), x \in S}

ColumnInputs ==
    SeqsUpTo({Column(y, v) : y \in {2025, 2024, 2020}, v \in {None, Some(5)}}, MaxColumns)

QuarterInputs ==
    {q \in SeqsUpTo({None, Some(1), Some(2)}, MaxQuarters) : Len(q) \in {0} \cup (4..MaxQuarters)}

InitProvider ==
    /\ threads = NoThreads
    /\ resolver = NoResolver
    /\ ingestion = NoIngestion
    /\ columns = FreshColumns
    /\ stock_financials = EmptyTable
    /\ clock = 0
    /\ call = NoCall
    /\ job = Idle
    /\ \E cf_raises \in BOOLEAN, q_raises \in BOOLEAN :
       \E cols \in (IF cf_raises THEN {<<>>} ELSE ColumnInputs),
          quarters \in (IF q_raises THEN {<<>>} ELSE QuarterInputs) :
          drv = [fn |-> "get_free_cash_flow", cf_raises |-> cf_raises, cols |-> cols,
                 q_raises |-> q_raises, quarters |-> quarters, out |-> None]

CallGetFreeCashFlow ==
    /\ drv.fn = "get_free_cash_flow" /\ drv.out = None
    /\ drv' = [drv EXCEPT !.out =
                  Some(get_free_cash_flow(Answer(FALSE, None, drv.cf_raises, AnnualOf(drv.cols),
                                                 drv.q_raises, drv.quarters)))]
    /\ UNCHANGED <<columns, stock_financials, clock, call, job, threads, resolver, ingestion>>

NextProvider == CallGetFreeCashFlow

SpecProvider == InitProvider /\ [][NextProvider]_vars

\* the valid annual figures the provider has published for year y
Published(y) ==
    {drv.cols[i].value : i \in {j \in 1..Len(drv.cols) :
                                  drv.cols[j].year = y /\ drv.cols[j].value # None}}

\* the four most recent quarterly figures are all there
FourQuarters ==
    /\ ~drv.q_raises
    /\ Len(drv.quarters) >= 4
    /\ \A i \in 1..4 : drv.quarters[i] # None

TtmSum == Some(Val(drv.quarters[1]) + Val(drv.quarters[2])
               + Val(drv.quarters[3]) + Val(drv.quarters[4]))

\* years 2021-2024 of the result come from published annual figures only, and a
\* published annual 2025 figure is the result's 2025
AnnualFiguresKept(o) ==
    /\ \A y \in {2021, 2022, 2023, 2024} :
          IF Published(y) = {} THEN o[Col(y)] = None ELSE o[Col(y)] \in Published(y)
    /\ Published(2025) # {} => o.fcf_2025 \in Published(2025)

---------------------------------------------------------------------------
(* Concurrent use: database.py 179-210, 269-342.  The refresh jobs run in    *)
(* the scheduler's threads and the page is served meanwhile, so store calls  *)
(* overlap.  Every `with self._get_connection() as conn` block is one        *)
(* transaction: update_fcf and update_enterprise_value read the record in    *)
(* one (inside self.get) and write it in another, the other methods have a   *)
(* single one.  Two calls are in flight; threads[t].before keeps the table   *)
(* the call was made on.                                                     *)

Threads == {1, 2}

InFlight(op, args, table) ==
    [op |-> op, args |-> args, pc |-> "called", record |-> None,
     raised |-> "", ret |-> None, before |-> table]

Updates(table) ==
    {InFlight("update_fcf", <<t, y, v>>, table) :
        t \in Tickers, y \in {2025, 2024, 2020}, v \in FcfValues}
    \cup {InFlight("update_enterprise_value", <<t, v>>, table) : t \in Tickers, v \in EvValues}

OtherWrites(table) ==
    {InFlight("upsert", <<get_all_data(t, Some(16), FreeCashFlowData(Some(1), None, None, None, None)),
                          "Acme">>, table) : t \in Tickers}
    \cup {InFlight("delete", <<t>>, table) : t \in Tickers}

Queries(table) ==
    {InFlight("get", <<t>>, table) : t \in Tickers}
    \cup {InFlight("get_all", <<>>, table)}
    \cup {InFlight("get_top_by_yield", <<limit>>, table) : limit \in {1, MaxLimit}}

\* the UPDATE of update_fcf, from the record the call has read
UpdateFcfStatement(record, ticker, year, value, now) ==
    LET fcf_values == <<IF year = 2025 THEN value ELSE record.fcf_2025,
                        IF year = 2024 THEN value ELSE record.fcf_2024,
                        IF year = 2023 THEN value ELSE record.fcf_2023,
                        IF year = 2022 THEN value ELSE record.fcf_2022,
                        IF year = 2021 THEN value ELSE record.fcf_2021>>
        average_fcf == _calculate_average_fcf(fcf_values)
        fcf_yield == _calculate_fcf_yield(average_fcf, record.enterprise_value)
    IN SqlUpdate(upper(ticker),
                 (Col(year) :> value) @@ ("average_fcf" :> average_fcf)
                 @@ ("fcf_yield" :> fcf_yield) @@ ("last_updated" :> isoformat(now)))

\* the UPDATE of update_enterprise_value, from the record the call has read
UpdateEvStatement(record, ticker, value, now) ==
    LET fcf_yield == _calculate_fcf_yield(record.average_fcf, value)
    IN SqlUpdate(upper(ticker),
                 ("enterprise_value" :> value) @@ ("fcf_yield" :> fcf_yield)
                 @@ ("last_updated" :> isoformat(now)))

Return(t, raised, ret) ==
    threads' = [threads EXCEPT ![t].pc = "returned", ![t].raised = raised, ![t].ret = ret]

InitConcurrent ==
    /\ columns = FreshColumns
    /\ stock_financials \in StoredAtStart
    /\ clock = 0
    /\ call = NoCall
    /\ drv = Idle
    /\ job = Idle
    /\ resolver = NoResolver
    /\ ingestion = NoIngestion
    /\ \E a \in Updates(stock_financials) \cup OtherWrites(stock_financials),
          b \in Updates(stock_financials) \cup OtherWrites(stock_financials)
                \cup Queries(stock_financials) :
          threads = (1 :> a) @@ (2 :> b)

\* update_fcf, update_enterprise_value up to `record = self.get(ticker)`
ThreadLookup(t) ==
    /\ threads[t].pc = "called"
    /\ threads[t].op \in {"update_fcf", "update_enterprise_value"}
    /\ IF threads[t].op = "update_fcf" /\ threads[t].args[2] \notin Years
       THEN Return(t, "ValueError", None)
       ELSE IF get(threads[t].args[1]) = None
       THEN Return(t, "", Some(FALSE))
       ELSE threads' = [threads EXCEPT ![t].pc = "read", ![t].record = get(threads[t].args[1])]
    /\ UNCHANGED <<columns, stock_financials, clock, call, drv, job, resolver, ingestion>>

\* the write of update_fcf / update_enterprise_value as it would be in two
\* statements committed one after the other: the input column, then the rest
ThreadUpdate_two_commits(t) ==
    /\ threads[t].pc \in {"read", "half"}
    /\ LET a == threads[t].args
           record == Val(threads[t].record)
           input == IF threads[t].op = "update_fcf" THEN Col(a[2]) ELSE "enterprise_value"
           whole == IF threads[t].op = "update_fcf"
                    THEN UpdateFcfStatement(record, a[1], a[2], a[3], clock + 1)
                    ELSE UpdateEvStatement(record, a[1], a[2], clock + 1)
       IN IF threads[t].pc = "read"
          THEN /\ stock_financials' =
                     [k \in DOMAIN stock_financials |->
                         [c \in DOMAIN stock_financials[k] |->
                             IF c = input THEN whole[k][c] ELSE stock_financials[k][c]]]
               /\ threads' = [threads EXCEPT ![t].pc = "half"]
          ELSE /\ stock_financials' = whole
               /\ Return(t, "", Some(TRUE))
    /\ clock' = clock + 1
    /\ UNCHANGED <<columns, call, drv, job, resolver, ingestion>>

\* update_fcf, update_enterprise_value from the recomputation to `return True`
ThreadUpdate(t) ==
    /\ threads[t].pc = "read"
    /\ LET a == threads[t].args
           record == Val(threads[t].record)
       IN stock_financials' =
             IF threads[t].op = "update_fcf"
             THEN UpdateFcfStatement(record, a[1], a[2], a[3], clock + 1)
             ELSE UpdateEvStatement(record, a[1], a[2], clock + 1)
    /\ Return(t, "", Some(TRUE))
    /\ clock' = clock + 1
    /\ UNCHANGED <<columns, call, drv, job, resolver, ingestion>>

\* upsert and delete: one transaction
ThreadWrite(t) ==
    /\ threads[t].pc = "called"
    /\ threads[t].op \in {"upsert", "delete"}
    /\ LET a == threads[t].args
           o == IF threads[t].op = "upsert" THEN upsert(a[1], a[2], clock + 1) ELSE delete(a[1])
       IN /\ stock_financials' = o.table
          /\ Return(t, o.raised, o.ret)
    /\ clock' = clock + 1
    /\ UNCHANGED <<columns, call, drv, job, resolver, ingestion>>

\* get, get_all, get_top_by_yield: one SELECT
ThreadQuery(t) ==
    /\ threads[t].pc = "called"
    /\ threads[t].op \in {"get", "get_all", "get_top_by_yield"}
    /\ \/ threads[t].op = "get" /\ Return(t, "", get(threads[t].args[1]))
       \/ threads[t].op = "get_all" /\ Return(t, "", get_all)
       \/ /\ threads[t].op = "get_top_by_yield"
          /\ \E rows \in get_top_by_yield(threads[t].args[1]) : Return(t, "", rows)
    /\ UNCHANGED <<columns, stock_financials, clock, call, drv, job, resolver, ingestion>>

NextConcurrent ==
    \E t \in Threads : ThreadLookup(t) \/ ThreadUpdate(t) \/ ThreadWrite(t) \/ ThreadQuery(t)

SpecConcurrent == InitConcurrent /\ [][NextConcurrent]_vars

---------------------------------------------------------------------------
(* A database file of an earlier version: database.py 76-101, 196-210.  Its  *)
(* table was created before the columns average_fcf and fcf_yield existed;   *)
(* the program starts with create_tables (database.py 53, ingestion_all.py   *)
(* 64), which adds them, and then reads and updates the table.               *)

\* the columns of the earlier CREATE TABLE
LegacyColumns == SelectSeq(FreshColumns, LAMBDA c : c \notin {"average_fcf", "fcf_yield"})

\* the rows an earlier version left: the same records, without the two columns
LegacyStoredAtStart ==
    {[k \in DOMAIN t |-> [c \in Range(LegacyColumns) |-> t[k][c]]] : t \in StoredAtStart}

\* both columns are in the table
Upgraded == {"average_fcf", "fcf_yield"} \subseteq Range(columns)

\* the start of the program on the earlier file; create_tables is called on top
\* of the MaxOps calls that follow it
InitUpgrade ==
    /\ threads = NoThreads
    /\ resolver = NoResolver
    /\ ingestion = NoIngestion
    /\ columns = LegacyColumns
    /\ stock_financials \in LegacyStoredAtStart
    /\ clock = -1
    /\ call = NoCall
    /\ drv = Idle
    /\ job = Idle

NextUpgrade ==
    \/ CallCreateTables
    \/ Upgraded /\ \E t \in Tickers, y \in Years, v \in FcfValues : CallUpdateFcf(t, y, v)
    \/ Upgraded /\ \E t \in Tickers : CallGet(t)
    \/ Upgraded /\ CallGetAll
    \/ Upgraded /\ \E limit \in 0..MaxLimit : CallGetTopByYield(limit)

SpecUpgrade == InitUpgrade /\ [][NextUpgrade]_vars

---------------------------------------------------------------------------
(* Tickers in either letter case: database.py 158-177, 189-194, 303-310,     *)
(* 354-360.  The store is called with the ticker as the caller wrote it.     *)

CaseTickers == {"AAA", "aaa"}

InitCase ==
    /\ threads = NoThreads
    /\ resolver = NoResolver
    /\ ingestion = NoIngestion
    /\ columns = FreshColumns
    /\ stock_financials \in StoredAtStart
    /\ clock = 0
    /\ call = NoCall
    /\ drv = Idle
    /\ job = Idle

NextCase ==
    \/ \E t \in CaseTickers, n \in Names : \E data \in UpsertData(t) : CallUpsert(data, n)
    \/ \E t \in CaseTickers, y \in Years, v \in FcfValues : CallUpdateFcf(t, y, v)
    \/ \E t \in CaseTickers, v \in EvValues : CallUpdateEnterpriseValue(t, v)
    \/ \E t \in CaseTickers : CallDelete(t)
    \/ \E t \in CaseTickers : CallGet(t)

SpecCase == InitCase /\ [][NextCase]_vars

---------------------------------------------------------------------------
(* The store in use while the scheduler runs the refresh jobs: app.py 16-70, *)
(* database.py 135-366.  Store calls of other callers fall between the turns *)
(* of a job's loop.                                                          *)

\* the provider answers AAA by TTM only, BBB not at all, CCC in full
LifecycleProviders ==
    {("AAA" :> AnswerTtm) @@ ("BBB" :> AnswerDown) @@ ("CCC" :> AnswerFull)}

\* sqlite3 refuses no update call, or the first one for AAA
LifecycleFaults == {NoFault, [ticker |-> "AAA", call |-> 1]}

\* the data dicts upsert is called with for ticker t: with and without figures
LifecycleData(t) ==
    { get_all_data(t, Some(8), FreeCashFlowData(Some(2), Some(1), None, None, None)),
      get_all_data(t, None, FreeCashFlowData(None, None, None, None, None)) }

InitLifecycle ==
    /\ threads = NoThreads
    /\ resolver = NoResolver
    /\ ingestion = NoIngestion
    /\ columns = FreshColumns
    /\ stock_financials \in StoredAtStart
    /\ clock = 0
    /\ call = NoCall
    /\ drv = Idle
    /\ \E provider \in LifecycleProviders, fault \in LifecycleFaults :
          job = [pc |-> "idle", kind |-> "", provider |-> provider, fault |-> fault,
                 runs |-> 0, records |-> <<>>, i |-> 1, success |-> 0, errors |-> 0,
                 fcf_data |-> NoFcf, year |-> 1, calls |-> 0, left |-> <<>>,
                 start |-> stock_financials]

NextLifecycle ==
    \/ CallCreateTables
    \/ \E t \in Tickers : \E data \in LifecycleData(t) : CallUpsert(data, "Acme")
    \/ \E t \in Tickers : CallUpdateFcf(t, 2025, Some(2))
    \/ \E t \in Tickers : CallUpdateEnterpriseValue(t, Some(16))
    \/ \E t \in Tickers : CallDelete(t)
    \/ CallClear
    \/ \E t \in Tickers : CallGet(t)
    \/ CallGetAll
    \/ CallCount
    \/ CallGetTopByYield(MaxLimit)
    \/ NextRefresh

SpecLifecycle == InitLifecycle /\ [][NextLifecycle]_vars

---------------------------------------------------------------------------
(* The ticker resolver: ticker_resolver.py 38-147.  A text is the sequence   *)
(* of its characters, so that strip, upper, lower and `in` act on it as      *)
(* Python's do.  The directory file is absent, not JSON, a JSON document     *)
(* that is not an object, or a JSON object whose values are entries in file  *)
(* order; an entry is an object with a ticker and a title, or a value that   *)
(* is not an object.  A resolver is used for MaxCalls calls with one input.  *)

MaxEntries == 2
MaxWord == 2
MaxCalls == 2

Lowercase == <<"a", "b">>
Uppercase == <<"A", "B">>

\* str.upper, str.lower
CharUpper(c) ==
    IF \E i \in DOMAIN Lowercase : Lowercase[i] = c
    THEN Uppercase[CHOOSE i \in DOMAIN Lowercase : Lowercase[i] = c] ELSE c
CharLower(c) ==
    IF \E i \in DOMAIN Uppercase : Uppercase[i] = c
    THEN Lowercase[CHOOSE i \in DOMAIN Uppercase : Uppercase[i] = c] ELSE c
str_upper(s) == [i \in 1..Len(s) |-> CharUpper(s[i])]
str_lower(s) == [i \in 1..Len(s) |-> CharLower(s[i])]

\* str.strip
RECURSIVE strip(_)
strip(s) ==
    IF s = <<>> THEN s
    ELSE IF Head(s) = " " THEN strip(Tail(s))
    ELSE IF s[Len(s)] = " " THEN strip(SubSeq(s, 1, Len(s) - 1))
    ELSE s

\* sub in s
contains(s, sub) ==
    \E i \in 0..(Len(s) - Len(sub)) : SubSeq(s, i + 1, i + Len(sub)) = sub

Company(ticker, title) == [ticker |-> ticker, title |-> title]

\* the values of the JSON object
Entry(ticker, title) == [shape |-> "dict", ticker |-> ticker, title |-> title]
NotAnEntry == [shape |-> "string", ticker |-> <<>>, title |-> <<>>]
Entries ==
    {Entry(k, t) : k \in {<<"A">>, <<"A", "B">>, <<"b">>},
                   t \in {<<"a", "B">>, <<"b">>}}
    \cup {NotAnEntry}

\* the file at json_path
File(kind, entries) == [kind |-> kind, entries |-> entries]
Files ==
    {File(k, <<>>) : k \in {"missing", "unparseable", "list"}}
    \cup {File("dict", e) : e \in SeqsUpTo(Entries, MaxEntries)}

\* what the caller passes: a word, with or without blanks around it
Inputs ==
    {l \o w \o r : w \in SeqsUpTo({"a", "A", "b"}, MaxWord),
                   l \in {<<>>, <<" ">>}, r \in {<<>>, <<" ">>}}

\* the loop of _load_data over data.values(): entry.get fails on a value that
\* is not an object, and what was loaded before it stays loaded
RECURSIVE LoadEntries(_, _, _)
LoadEntries(entries, companies, ticker_map) ==
    IF entries = <<>>
    THEN [raised |-> "", companies |-> companies, ticker_map |-> ticker_map]
    ELSE LET entry == Head(entries)
             company == Company(entry.ticker, entry.title)
         IN IF entry.shape # "dict"
            THEN [raised |-> "AttributeError", companies |-> companies,
                  ticker_map |-> ticker_map]
            ELSE LoadEntries(Tail(entries), Append(companies, company),
                             (str_upper(company.ticker) :> company) @@ ticker_map)

\* _load_data: FileNotFoundError and JSONDecodeError are caught, nothing else
_load_data(file) ==
    CASE file.kind \in {"missing", "unparseable"} ->
            [raised |-> "", companies |-> <<>>, ticker_map |-> <<>>]
      [] file.kind = "list" ->
            [raised |-> "AttributeError", companies |-> <<>>, ticker_map |-> <<>>]
      [] file.kind = "dict" -> LoadEntries(file.entries, <<>>, <<>>)

\* TickerResolver(json_path)
TickerResolver(file) == [file |-> file, _companies |-> None, _ticker_map |-> None]

\* the properties companies and ticker_map: the first use loads the file
Loaded(self) ==
    IF self._ticker_map # None
    THEN [raised |-> "", self |-> self]
    ELSE LET data == _load_data(self.file)
         IN [raised |-> data.raised,
             self |-> [self EXCEPT !._companies = Some(data.companies),
                                   !._ticker_map = Some(data.ticker_map)]]

\* what a method leaves: the resolver, the exception raised, the value returned
Left(self, raised, ret) == [self |-> self, raised |-> raised, ret |-> ret]

\* step 2 of resolve, mutated: the last company whose title contains the input
PartialMatch_last(companies, input_lower) ==
    LET hits == {i \in DOMAIN companies :
                    contains(str_lower(companies[i].title), input_lower)}
    IN IF hits = {} THEN None
       ELSE Some(companies[CHOOSE i \in hits : \A j \in hits : j <= i].ticker)

\* step 2 of resolve: the first company, in load order, whose title contains the input
PartialMatch(companies, input_lower) ==
    LET hits == {i \in DOMAIN companies :
                    contains(str_lower(companies[i].title), input_lower)}
    IN IF hits = {} THEN None
       ELSE Some(companies[CHOOSE i \in hits : \A j \in hits : i <= j].ticker)

\* resolve, mutated: the company names are searched before the tickers
resolve_titles_first(self, user_input) ==
    LET stripped == strip(user_input)
        input_upper == str_upper(stripped)
        input_lower == str_lower(stripped)
        l == Loaded(self)
        ticker_map == Val(l.self._ticker_map)
        match == PartialMatch(Val(l.self._companies), input_lower)
    IN IF l.raised # "" THEN Left(l.self, l.raised, None)
       ELSE IF match # None THEN Left(l.self, "", Val(match))
       ELSE IF input_upper \in DOMAIN ticker_map
       THEN Left(l.self, "", ticker_map[input_upper].ticker)
       ELSE Left(l.self, "", input_upper)

resolve(self, user_input) ==
    LET stripped == strip(user_input)
        input_upper == str_upper(stripped)
        input_lower == str_lower(stripped)
        l == Loaded(self)
        ticker_map == Val(l.self._ticker_map)
        match == PartialMatch(Val(l.self._companies), input_lower)
    IN IF l.raised # "" THEN Left(l.self, l.raised, None)
       ELSE IF input_upper \in DOMAIN ticker_map
       THEN Left(l.self, "", ticker_map[input_upper].ticker)
       ELSE IF match # None THEN Left(l.self, "", Val(match))
       ELSE Left(l.self, "", input_upper)

get_company(self, ticker) ==
    LET l == Loaded(self)
        ticker_map == Val(l.self._ticker_map)
    IN IF l.raised # "" THEN Left(l.self, l.raised, None)
       ELSE IF str_upper(ticker) \in DOMAIN ticker_map
       THEN Left(l.self, "", Some(ticker_map[str_upper(ticker)]))
       ELSE Left(l.self, "", None)

\* the loop of search: a match is appended, and the loop ends at limit results
RECURSIVE SearchLoop(_, _, _, _)
SearchLoop(companies, query_lower, limit, results) ==
    IF companies = <<>> THEN results
    ELSE LET company == Head(companies)
         IN IF contains(str_lower(company.ticker), query_lower)
               \/ contains(str_lower(company.title), query_lower)
            THEN IF Len(results) + 1 >= limit THEN Append(results, company)
                 ELSE SearchLoop(Tail(companies), query_lower, limit,
                                 Append(results, company))
            ELSE SearchLoop(Tail(companies), query_lower, limit, results)

search(self, query, limit) ==
    LET l == Loaded(self)
    IN IF l.raised # "" THEN Left(l.self, l.raised, <<>>)
       ELSE Left(l.self, "",
                    SearchLoop(Val(l.self._companies), str_lower(query), limit, <<>>))

InitResolver ==
    /\ threads = NoThreads
    /\ columns = FreshColumns
    /\ stock_financials = EmptyTable
    /\ clock = 0
    /\ call = NoCall
    /\ drv = Idle
    /\ job = Idle
    /\ ingestion = NoIngestion
    /\ \E file \in Files, input \in Inputs :
          resolver = [self |-> TickerResolver(file), input |-> input, calls |-> 0,
                      call |-> NoCall]

Answered(op, args, o) ==
    /\ resolver' = [resolver EXCEPT !.self = o.self, !.calls = @ + 1,
                                    !.call = Called(op, args, o.raised, o.ret)]
    /\ UNCHANGED <<columns, stock_financials, clock, call, drv, job, threads, ingestion>>

CallResolve ==
    /\ resolver # NoResolver /\ resolver.calls < MaxCalls
    /\ Answered("resolve", <<resolver.input>>, resolve(resolver.self, resolver.input))

CallGetCompany ==
    /\ resolver # NoResolver /\ resolver.calls < MaxCalls
    /\ Answered("get_company", <<resolver.input>>,
                get_company(resolver.self, resolver.input))

CallSearch ==
    /\ resolver # NoResolver /\ resolver.calls < MaxCalls
    /\ \E limit \in {1, 10} :
          Answered("search", <<resolver.input, limit>>,
                   search(resolver.self, resolver.input, limit))

NextResolver == CallResolve \/ CallGetCompany \/ CallSearch

SpecResolver == InitResolver /\ [][NextResolver]_vars

---------------------------------------------------------------------------
(* Bulk ingestion: ingestion_all.py 25-107.  The directory is the list the   *)
(* resolver loaded, in load order; the provider answers per ticker; sqlite3  *)
(* may refuse the upsert of one turn of the loop.                            *)

MaxDirectory == 3

\* resolver.companies
Directories ==
    SeqsUpTo({Company("AAA", "Acme"), Company("BBB", "Beta"), Company("CCC", "Core")},
             MaxDirectory)

\* the argument of run: no limit, or an integer
RunLimits == {None} \cup {Some(l) : l \in (-1)..(MaxDirectory + 1)}

\* sqlite3 refuses the upsert of no turn, or of this turn
UpsertFaults == {0, 1, 2}

\* `if limit:`
Truthy(limit) == limit # None /\ Val(limit) # 0

\* companies[:limit]
SliceTo(companies, limit) ==
    IF limit >= 0 THEN SubSeq(companies, 1, Min(limit, Len(companies)))
    ELSE SubSeq(companies, 1, Len(companies) + limit)

\* run(limit): companies = list(self.resolver.companies); if limit: companies[:limit]
Limited(companies, limit) ==
    IF Truthy(limit) THEN SliceTo(companies, Val(limit)) ELSE companies

\* Stock(ticker).get_all_data() with the provider's answer for the ticker
FetchAllData(ticker, answer) ==
    get_all_data(upper(ticker), get_enterprise_value(answer), get_free_cash_flow(answer))

\* StockIngestion() before run is called
InitIngestion ==
    /\ threads = NoThreads
    /\ resolver = NoResolver
    /\ columns = FreshColumns
    /\ stock_financials \in StoredAtStart
    /\ clock = 0
    /\ call = NoCall
    /\ drv = Idle
    /\ job = Idle
    /\ \E directory \in Directories, limit \in RunLimits,
          provider \in LifecycleProviders, fault \in UpsertFaults :
          ingestion = [pc |-> "idle", directory |-> directory, limit |-> limit,
                       provider |-> provider, fault |-> fault, companies |-> <<>>,
                       i |-> 1, success_count |-> 0, error_count |-> 0,
                       fetched |-> <<>>, upserts |-> <<>>]

\* run(limit) up to the loop: create_tables, the list of companies to process
StartRun ==
    /\ ingestion.pc = "idle"
    /\ columns' = create_tables_columns
    /\ stock_financials' = create_tables_rows
    /\ call' = Called("create_tables", <<>>, "", None)
    /\ ingestion' = [ingestion EXCEPT
                        !.pc = "loop",
                        !.companies = Limited(ingestion.directory, ingestion.limit),
                        !.i = 1, !.success_count = 0, !.error_count = 0]
    /\ UNCHANGED <<clock, drv, job, threads, resolver>>

\* one turn of the loop: the provider fetch, the upsert, the tally
IngestCompany ==
    /\ ingestion.pc = "loop" /\ ingestion.i <= Len(ingestion.companies)
    /\ LET company == ingestion.companies[ingestion.i]
           data == FetchAllData(company.ticker, ingestion.provider[upper(company.ticker)])
           turn == [ingestion EXCEPT !.i = @ + 1,
                                     !.fetched = Append(@, company.ticker),
                                     !.upserts = Append(@, company.ticker)]
       IN IF ingestion.fault = ingestion.i
          THEN /\ ingestion' = [turn EXCEPT !.error_count = @ + 1]
               /\ call' = Called("upsert", <<data, company.title>>,
                                 "sqlite3.OperationalError", None)
               /\ UNCHANGED stock_financials
          ELSE LET o == upsert(data, company.title, clock + 1)
               IN /\ ingestion' = [turn EXCEPT !.success_count = @ + 1]
                  /\ stock_financials' = o.table
                  /\ call' = Called("upsert", <<data, company.title>>, o.raised, o.ret)
    /\ clock' = clock + 1
    /\ UNCHANGED <<columns, drv, job, threads, resolver>>

\* the loop is over: the tally is printed
RunComplete ==
    /\ ingestion.pc = "loop" /\ ingestion.i > Len(ingestion.companies)
    /\ ingestion' = [ingestion EXCEPT !.pc = "done"]
    /\ UNCHANGED <<columns, stock_financials, clock, call, drv, job, threads, resolver>>

NextIngestion == StartRun \/ IngestCompany \/ RunComplete

SpecIngestion == InitIngestion /\ [][NextIngestion]_vars

---------------------------------------------------------------------------
(* Properties of the refresh jobs *)

\* the columns a refresh may change without changing what the record says
SameButLastUpdated(t1, t2) ==
    /\ DOMAIN t1 = DOMAIN t2
    /\ \A k \in DOMAIN t1 : \A c \in DOMAIN t1[k] \ {"last_updated"} : t1[k][c] = t2[k][c]

\* C11: a refresh job run a second time, with the provider's answers unchanged and
\* no other write in between, leaves every record's enterprise_value, five FCF
\* years, average_fcf and fcf_yield, and the set of stored tickers, as they were
\* after the first run.
C11_RefreshIdempotent ==
    \A n \in 1..Len(job.left) - 1 :
        job.left[n].kind = job.left[n + 1].kind =>
            SameButLastUpdated(job.left[n].table, job.left[n + 1].table)

\* C11 witness: the FCF refresh has run twice over two records, the provider has
\* FCF data for both, and the second run has written the records again
C11_Witness ==
    /\ job.pc = "done" /\ Len(job.left) = 2
    /\ job.left[1].kind = "fcf" /\ job.left[2].kind = "fcf"
    /\ job.success = 2 /\ job.fault = NoFault
    /\ \A n \in 1..2 : get_free_cash_flow(Stock(job.records[n])) # NoFcf
    /\ \E k \in DOMAIN stock_financials :
          stock_financials[k]["last_updated"] # job.left[1].table[k]["last_updated"]

\* the update_fcf calls the FCF refresh makes for a ticker: one per year the
\* provider has a value for
FcfCalls(ticker) ==
    Cardinality({y \in Years : get_free_cash_flow(Stock(ticker))[Col(y)] # None})

\* the store has refused an update_fcf of the ticker after earlier ones of the
\* same turn were written
FailedPartway(ticker) ==
    /\ job.fault.ticker = upper(ticker)
    /\ job.fault.call >= 2
    /\ job.fault.call <= FcfCalls(ticker)

\* C12: when the per-ticker work of the FCF refresh fails partway (some of the
\* per-year update_fcf calls of the ticker are written and a later one raises), the
\* ticker is counted as an error and its average_fcf and fcf_yield are the values it
\* had before the batch started.
C12_PartialFailureKeepsDerived ==
    (job.pc = "done" /\ job.kind = "fcf") =>
        \A n \in 1..Len(job.records) :
            FailedPartway(job.records[n]) =>
                /\ job.errors >= 1
                /\ \A k \in {upper(job.records[n])} :
                      /\ stock_financials[k]["average_fcf"] = job.start[k]["average_fcf"]
                      /\ stock_financials[k]["fcf_yield"] = job.start[k]["fcf_yield"]

---------------------------------------------------------------------------
(* Properties of concurrent use *)

AllReturned == \A t \in Threads : threads[t].pc = "returned"

IsUpdate(c) == c.op \in {"update_fcf", "update_enterprise_value"}
IsQuery(c) == c.op \in {"get", "get_all", "get_top_by_yield"}

\* C13: each single-field update performs its read, recomputation and write as one
\* atomic step: under every interleaving of two concurrent updates of the same
\* ticker (update_fcf of different years, or update_fcf with
\* update_enterprise_value), once both calls have returned the record's average_fcf
\* and fcf_yield are the derivation of the FCF years and enterprise value then
\* stored.
C13_UpdatesAtomic ==
    (/\ threads # NoThreads
     /\ AllReturned
     /\ IsUpdate(threads[1]) /\ IsUpdate(threads[2])
     /\ threads[1].args[1] = threads[2].args[1]
     /\ threads[1].ret = Some(TRUE) /\ threads[2].ret = Some(TRUE))
    => \A r \in {Val(get(threads[1].args[1]))} :
          /\ r.average_fcf = _calculate_average_fcf(FcfYears(r))
          /\ r.fcf_yield = _calculate_fcf_yield(r.average_fcf, r.enterprise_value)

\* the records a query has returned
Returned(c) ==
    IF c.op = "get" THEN (IF c.ret = None THEN {} ELSE {Val(c.ret)})
    ELSE {c.ret[n] : n \in 1..Len(c.ret)}

RecordsOf(table) == {RecordOf(table[k]) : k \in DOMAIN table}

\* C14: a read (get, get_all, get_top_by_yield) running concurrently with one write
\* on a ticker returns for that ticker either the complete record from before the
\* write or the complete record from after it, never a row in which the new input
\* value stands with the old average_fcf or fcf_yield (or the reverse).
C14_ReadsSeeWholeRows ==
    (threads # NoThreads /\ IsQuery(threads[2]) /\ threads[2].pc = "returned") =>
        \/ Returned(threads[2]) \subseteq RecordsOf(threads[2].before)
        \/ /\ threads[1].pc = "returned"
           /\ Returned(threads[2]) \subseteq RecordsOf(stock_financials)

\* C14 witness: get has returned the record of a ticker whose FCF year a
\* concurrent update_fcf had already written (the record after the write)
C14_Witness ==
    /\ threads # NoThreads /\ AllReturned
    /\ threads[1].op = "update_fcf" /\ threads[1].ret = Some(TRUE)
    /\ threads[2].op = "get" /\ threads[2].args[1] = threads[1].args[1]
    /\ threads[2].ret # None
    /\ Val(threads[2].ret) \notin RecordsOf(threads[2].before)
    /\ Val(threads[2].ret).average_fcf # RecordOf(threads[2].before[threads[1].args[1]]).average_fcf

---------------------------------------------------------------------------
(* Properties of the ticker resolver *)

\* the file is a JSON object all of whose values are entries
WellFormed(file) ==
    file.kind = "dict" /\ \A i \in DOMAIN file.entries : file.entries[i].shape = "dict"

Directory == resolver.self.file.entries
Resolved == resolver # NoResolver /\ resolver.call.op = "resolve"
Trimmed == strip(resolver.input)
ExactAt(i) == str_upper(Directory[i].ticker) = str_upper(Trimmed)
TitleAt(i) == contains(str_lower(Directory[i].title), str_lower(Trimmed))

\* C16: exact ticker match takes precedence in resolve.  Whenever the trimmed
\* input, compared case-insensitively, equals the ticker of a directory entry,
\* resolve returns that entry's ticker, whatever titles the input is part of.
C16_ExactTickerFirst ==
    (/\ Resolved /\ WellFormed(resolver.self.file)
     /\ \E i \in DOMAIN Directory : ExactAt(i))
    => /\ resolver.call.raised = ""
       /\ \E i \in DOMAIN Directory : ExactAt(i) /\ resolver.call.ret = Directory[i].ticker

\* an exact match was returned although an earlier entry of another ticker has
\* the input in its title
C16_Witness ==
    /\ Resolved /\ WellFormed(resolver.self.file) /\ resolver.call.raised = ""
    /\ \E i, j \in DOMAIN Directory :
          /\ i < j /\ TitleAt(i) /\ ~ExactAt(i) /\ ExactAt(j)
          /\ resolver.call.ret = Directory[j].ticker
          /\ resolver.call.ret # Directory[i].ticker

\* C17: when the input matches no directory ticker exactly, resolve returns
\* the ticker of the first entry, in load order, whose title contains the
\* input case-insensitively; when no title contains it, resolve returns the
\* trimmed input uppercased.
C17_FirstTitleMatchElseUpper ==
    (/\ Resolved /\ WellFormed(resolver.self.file)
     /\ \A i \in DOMAIN Directory : ~ExactAt(i))
    => /\ resolver.call.raised = ""
       /\ \A i \in DOMAIN Directory :
             (TitleAt(i) /\ \A j \in 1..(i - 1) : ~TitleAt(j))
             => resolver.call.ret = Directory[i].ticker
       /\ (\A i \in DOMAIN Directory : ~TitleAt(i))
             => resolver.call.ret = str_upper(Trimmed)

\* two entries of different tickers have the input in their titles, and the
\* earlier one's ticker was returned
C17_Witness ==
    /\ Resolved /\ WellFormed(resolver.self.file) /\ resolver.call.raised = ""
    /\ \A i \in DOMAIN Directory : ~ExactAt(i)
    /\ \E i, j \in DOMAIN Directory :
          /\ i < j /\ TitleAt(i) /\ TitleAt(j)
          /\ Directory[i].ticker # Directory[j].ticker
          /\ resolver.call.ret = Directory[i].ticker

\* C18: the resolver never fails on bad directory input.  When the file is
\* missing, unparseable, or parseable but not a keyed collection of entries,
\* resolve returns the uppercased trimmed input, get_company returns absent
\* and search returns an empty list, without raising.
C18_BadDirectoryDegrades ==
    (resolver # NoResolver /\ resolver.calls > 0 /\ ~WellFormed(resolver.self.file))
    => /\ resolver.call.raised = ""
       /\ resolver.call.op = "resolve" => resolver.call.ret = str_upper(Trimmed)
       /\ resolver.call.op = "get_company" => resolver.call.ret = None
       /\ resolver.call.op = "search" => resolver.call.ret = <<>>
       /\ resolver.self._companies = Some(<<>>)

---------------------------------------------------------------------------
(* Properties of the schema upgrade *)

\* C19: schema upgrade is backward-compatible.  After create_tables has run on
\* a table created without average_fcf and fcf_yield, every record returned by
\* get, get_all and get_top_by_yield is a row of the table read by name: ticker,
\* company_name, enterprise_value, the five FCF values and last_updated in the
\* fields of the same name, and average_fcf and fcf_yield holding what the
\* columns of that name hold (a derived value or null), never another column.
C19_UpgradeKeepsRows ==
    (/\ Upgraded /\ columns # FreshColumns
     /\ call.op \in {"get", "get_all", "get_top_by_yield"})
    => \A r \in Returned(call) :
          \E k \in DOMAIN stock_financials :
             \A c \in Range(FreshColumns) : r[c] = stock_financials[k][c]

---------------------------------------------------------------------------
(* Properties of the record key *)

\* C20: all store operations agree on the record key.  For a ticker t in any
\* letter case, once upsert with ticker t has returned, get(t) returns the
\* record it stored, update_fcf(t, ...) and update_enterprise_value(t, ...)
\* return true, delete(t) returns true and removes it; and no two records have
\* tickers that differ only in case.
C20_OneKeyPerTicker ==
    /\ call.op = "upsert" =>
          \A t \in {call.args[1]["ticker"]} :
             /\ get(t) # None
             /\ Val(get(t)).company_name = call.args[2]
             /\ Val(get(t)).last_updated = isoformat(clock)
             /\ update_fcf(t, 2025, None, clock + 1).ret = Some(TRUE)
             /\ update_enterprise_value(t, None, clock + 1).ret = Some(TRUE)
             /\ delete(t).ret = Some(TRUE)
             /\ \A k \in DOMAIN delete(t).table : upper(k) # upper(t)
    /\ \A k1, k2 \in DOMAIN stock_financials : upper(k1) = upper(k2) => k1 = k2

---------------------------------------------------------------------------
(* Properties of the set of stored tickers *)

StoredTickers == DOMAIN stock_financials

\* a step of a refresh job; a call of a store method by another caller
JobStep == job' # job
StoreCall == job' = job /\ clock' # clock

\* C21: over any sequence of store operations and refresh-job runs using
\* uppercase tickers, the set of stored tickers changes only through upsert
\* (adds the ticker if absent, never duplicates it), delete (removes exactly
\* that ticker and returns true iff it was present) and clear (removes all);
\* update_fcf, update_enterprise_value, both refresh jobs and all read queries
\* never add or remove a record, and count() equals the size of that set.
C21_TickerSetLifecycle ==
    [][/\ JobStep => StoredTickers' = StoredTickers
       /\ StoreCall =>
             CASE call'.op = "upsert" ->
                     /\ StoredTickers' = StoredTickers \cup {call'.args[1]["ticker"]}
                     /\ Cardinality({n \in DOMAIN get_all' :
                                        get_all'[n].ticker = call'.args[1]["ticker"]}) = 1
               [] call'.op = "delete" ->
                     /\ StoredTickers' = StoredTickers \ {call'.args[1]}
                     /\ call'.ret = Some(call'.args[1] \in StoredTickers)
               [] call'.op = "clear" -> StoredTickers' = {}
               [] call'.op = "count" ->
                     /\ StoredTickers' = StoredTickers
                     /\ call'.ret = Cardinality(StoredTickers)
               [] OTHER -> StoredTickers' = StoredTickers
      ]_vars

\* a run of a refresh job that updated a record has ended, and during it another
\* caller's delete took away a ticker the run had listed
C21_Witness ==
    /\ job.pc = "done" /\ job.success >= 1
    /\ \E t \in DOMAIN job.start : t \notin StoredTickers
    /\ \E t \in StoredTickers \cap DOMAIN job.start : stock_financials[t] # job.start[t]

---------------------------------------------------------------------------
(* Properties of bulk ingestion *)

\* the tickers of the first n entries of the directory
FirstTickers(n) == [k \in 1..n |-> ingestion.directory[k].ticker]

\* C22: bulk ingestion honours its limit.  For every integer limit L >= 0 and
\* a directory of N entries, a finished run(limit=L) has made one provider
\* fetch and one upsert for each of the first min(L, N) directory entries, in
\* load order, and for no others, whatever failed on the way, and its tally
\* satisfies success + errors = min(L, N).
C22_RunHonoursLimit ==
    (/\ ingestion # NoIngestion /\ ingestion.pc = "done"
     /\ ingestion.limit # None /\ Val(ingestion.limit) >= 0)
    => \A n \in {Min(Val(ingestion.limit), Len(ingestion.directory))} :
          /\ ingestion.fetched = FirstTickers(n)
          /\ ingestion.upserts = FirstTickers(n)
          /\ ingestion.success_count + ingestion.error_count = n

===========================================================================
